---- MODULE Spec2Model ----
(***************************************************************************)
(* Model of src/app.py: the cached ingestion pipeline of the ratings       *)
(* dashboard (load_data under st.cache_data(ttl=300), its encoding         *)
(* recovery, column-name repair, date derivation and numeric coercion),    *)
(* the module-level script that calls it, and the transforms behind the    *)
(* main chart (weekday filter, moving averages, period comparison, weekday *)
(* aggregation, correlation).                                              *)
(*                                                                         *)
(* Text is a sequence of Unicode code points, raw content a sequence of    *)
(* bytes (0..255).  Dates are day numbers counted from 1900-01-01.         *)
(*                                                                         *)
(* Spec is the dashboard: script runs, the refresh button, the clock and   *)
(* edits of the spreadsheet, one logical flow at a time (a script run is   *)
(* one step; sessions running load_data at the same moment are not         *)
(* modelled).  SpecIngest is load_data alone on every content considered,  *)
(* SpecRepair the column-name repair alone on every name considered.       *)
(* SpecView is the rest of a script run after a successful load: the       *)
(* sidebar selections and the main chart they lead to, on every table and  *)
(* selection considered.  Ratings and averages are exact fractions; NaN is *)
(* a value of its own.                                                     *)
(*                                                                         *)
(* Library behaviour is modelled by what the library does: the strict and  *)
(* replacing UTF-8 decoders, the cp949 / euc-kr code tables restricted to  *)
(* the codes that occur, the dtype pandas infers for a column, the entry   *)
(* of st.cache_data expiring once it is ttl seconds old.                   *)
(***************************************************************************)
EXTENDS Integers, Sequences, FiniteSets, TLC

VARIABLES
    clock,      \* seconds, the time source of the cache
    cache,      \* the st.cache_data entry of load_data: NoEntry or [value, storedAt]
    remote,     \* what the spreadsheet export currently serves
    pc,         \* position of the script: "idle", "rerun" (st.rerun pending)
    result,     \* what the last load_data() call returned to the script
    gets,       \* number of HTTP GETs the last load_data() call performed
    ui,         \* what the script rendered: "none", "cannot_load", "dashboard"
    op,         \* the last operation taken
    lookup,     \* what the last load_data() call found in the cache
    netw,       \* which of the requests of the last execution of load_data succeeded
    name,       \* column-name repair harness: the column name under repair
    once,       \* ... its repair
    twice,      \* ... the repair of its repair
    table,      \* the script's df after the main chart: the table and the columns added to it
    view,       \* what the main chart section produced
    sel         \* the sidebar selections of the run

vars == <<clock, cache, remote, pc, result, gets, ui, op, lookup, netw, name, once, twice,
          table, view, sel>>

-----------------------------------------------------------------------------
(* Sequences helpers *)

Range(s) == {s[i] : i \in 1..Len(s)}

\* F applied to the value of x, x evaluated once
With(x, F(_)) == CHOOSE v \in {F(y) : y \in {x}} : TRUE

\* s[i..i+Len(p)-1] = p
MatchAt(s, p, i) ==
    /\ i + Len(p) - 1 <= Len(s)
    /\ \A k \in 1..Len(p) : s[i + k - 1] = p[k]

\* Python's `p in s` for strings
Contains(s, p) == \E i \in 1..(Len(s) + 1) : MatchAt(s, p, i)

\* Python's s.replace(old, new): left-to-right, non-overlapping (old is non-empty)
RECURSIVE ReplaceFrom(_, _, _, _)
ReplaceFrom(s, old, new, i) ==
    IF i > Len(s) THEN <<>>
    ELSE IF MatchAt(s, old, i)
         THEN new \o ReplaceFrom(s, old, new, i + Len(old))
         ELSE <<s[i]>> \o ReplaceFrom(s, old, new, i + 1)

StrReplace(s, old, new) == ReplaceFrom(s, old, new, 1)

\* the fields of a delimited line
RECURSIVE SplitFrom(_, _, _, _)
SplitFrom(s, sep, i, cur) ==
    IF i > Len(s) THEN <<cur>>
    ELSE IF s[i] = sep
         THEN <<cur>> \o SplitFrom(s, sep, i + 1, <<>>)
         ELSE SplitFrom(s, sep, i + 1, Append(cur, s[i]))

Split(s, sep) == SplitFrom(s, sep, 1, <<>>)

-----------------------------------------------------------------------------
(* Codecs: bytes.decode(encoding) of the five candidate encodings *)

DecodeError == [ok |-> FALSE, text |-> <<>>]
Decoded(t) == [ok |-> TRUE, text |-> t]

IsCont(b) == b \in 128..191

\* number of continuation bytes a UTF-8 lead byte announces, -1: not a lead byte
Utf8Need(b0) ==
    IF b0 < 128 THEN 0
    ELSE IF b0 \in 194..223 THEN 1
    ELSE IF b0 \in 224..239 THEN 2
    ELSE IF b0 \in 240..244 THEN 3
    ELSE -1

\* the range of the second byte (no overlong forms, no surrogates, <= U+10FFFF)
Utf8SecondOK(b0, b1) ==
    IF b0 = 224 THEN b1 \in 160..191
    ELSE IF b0 = 237 THEN b1 \in 128..159
    ELSE IF b0 = 240 THEN b1 \in 144..191
    ELSE IF b0 = 244 THEN b1 \in 128..143
    ELSE IsCont(b1)

\* the code point at b[i]: [valid, cp, len]; len of an invalid one is its
\* maximal well-formed prefix
Utf8Next(b, i) ==
    LET b0 == b[i]
        need == Utf8Need(b0)
        n == Len(b)
        bad(k) == [valid |-> FALSE, cp |-> 65533, len |-> k]
    IN  IF need = -1 THEN bad(1)
        ELSE IF need = 0 THEN [valid |-> TRUE, cp |-> b0, len |-> 1]
        ELSE IF ~(i + 1 <= n /\ Utf8SecondOK(b0, b[i + 1])) THEN bad(1)
        ELSE IF need = 1
             THEN [valid |-> TRUE, cp |-> (b0 - 192) * 64 + (b[i + 1] - 128), len |-> 2]
        ELSE IF ~(i + 2 <= n /\ IsCont(b[i + 2])) THEN bad(2)
        ELSE IF need = 2
             THEN [valid |-> TRUE,
                   cp |-> (b0 - 224) * 4096 + (b[i + 1] - 128) * 64 + (b[i + 2] - 128),
                   len |-> 3]
        ELSE IF ~(i + 3 <= n /\ IsCont(b[i + 3])) THEN bad(3)
        ELSE [valid |-> TRUE,
              cp |-> (b0 - 240) * 262144 + (b[i + 1] - 128) * 4096
                     + (b[i + 2] - 128) * 64 + (b[i + 3] - 128),
              len |-> 4]

\* bytes.decode('utf-8'): strict
RECURSIVE Utf8From(_, _, _)
Utf8From(b, i, acc) ==
    IF i > Len(b) THEN Decoded(acc)
    ELSE LET nx == Utf8Next(b, i)
         IN  IF nx.valid THEN Utf8From(b, i + nx.len, Append(acc, nx.cp))
             ELSE DecodeError

DecodeUtf8(b) == Utf8From(b, 1, <<>>)

\* requests' response.text under encoding utf-8: errors='replace'
RECURSIVE Utf8ReplaceFrom(_, _, _)
Utf8ReplaceFrom(b, i, acc) ==
    IF i > Len(b) THEN acc
    ELSE LET nx == Utf8Next(b, i)
         IN  Utf8ReplaceFrom(b, i + nx.len, Append(acc, nx.cp))

DecodeUtf8Replace(b) == Utf8ReplaceFrom(b, 1, <<>>)

BOM == <<239, 187, 191>>

\* bytes.decode('utf-8-sig'): utf-8 with a leading byte order mark dropped
DecodeUtf8Sig(b) ==
    IF MatchAt(b, BOM, 1) THEN DecodeUtf8(SubSeq(b, 4, Len(b))) ELSE DecodeUtf8(b)

\* The two-byte codes of cp949 that occur in the content considered here:
\* <<lead, trail, code point, also a code of euc-kr>>
KoreanCodes ==
    { <<130, 160, 44423, FALSE>>, <<179, 175, 45216, TRUE>>,  <<180, 186, 45684, TRUE>>,
      <<183, 235, 47352, TRUE>>,  <<188, 177, 49440, TRUE>>,  <<189, 186, 49828, TRUE>>,
      <<191, 68, 54433, FALSE>>,  <<191, 235, 50857, TRUE>>,  <<193, 182, 51312, TRUE>>,
      <<194, 130, 54807, FALSE>>, <<194, 132, 54809, FALSE>>, <<194, 137, 54815, FALSE>>,
      <<194, 138, 54817, FALSE>>, <<194, 156, 54837, FALSE>>, <<194, 160, 54843, FALSE>>,
      <<194, 161, 51669, FALSE>>, <<194, 163, 51673, TRUE>>,  <<194, 164, 51674, TRUE>>,
      <<194, 165, 51676, TRUE>>,  <<194, 167, 51680, TRUE>>,  <<194, 176, 51704, FALSE>>,
      <<194, 177, 51705, TRUE>>,  <<194, 180, 51720, TRUE>>,  <<194, 184, 51725, TRUE>>,
      <<195, 171, 52312, TRUE>>,  <<195, 172, 52313, TRUE>>,  <<236, 167, 63966, FALSE>>,
      <<239, 187, 30308, TRUE>> }

\* bytes.decode('cp949') (eucOnly = FALSE) and bytes.decode('euc-kr') (TRUE)
RECURSIVE KoreanFrom(_, _, _, _)
KoreanFrom(b, i, acc, eucOnly) ==
    IF i > Len(b) THEN Decoded(acc)
    ELSE IF b[i] < 128 THEN KoreanFrom(b, i + 1, Append(acc, b[i]), eucOnly)
    ELSE IF i + 1 > Len(b) THEN DecodeError
    ELSE LET hit == {c \in KoreanCodes :
                        c[1] = b[i] /\ c[2] = b[i + 1] /\ (eucOnly => c[4])}
         IN  IF hit = {} THEN DecodeError
             ELSE KoreanFrom(b, i + 2, Append(acc, (CHOOSE c \in hit : TRUE)[3]), eucOnly)

DecodeCp949(b) == KoreanFrom(b, 1, <<>>, FALSE)
DecodeEucKr(b) == KoreanFrom(b, 1, <<>>, TRUE)

\* bytes.decode('iso-8859-1'): every byte is the code point of the same number
DecodeLatin1(b) == Decoded(b)

\* line 160: the candidate list, in order
encodings == <<"utf-8", "utf-8-sig", "cp949", "euc-kr", "iso-8859-1">>

Decode(b, encoding) ==
    CASE encoding = "utf-8" -> DecodeUtf8(b)
      [] encoding = "utf-8-sig" -> DecodeUtf8Sig(b)
      [] encoding = "cp949" -> DecodeCp949(b)
      [] encoding = "euc-kr" -> DecodeEucKr(b)
      [] encoding = "iso-8859-1" -> DecodeLatin1(b)

(* str.encode(encoding), for the content the remote source serves *)

EncodeUtf8Char(c) ==
    IF c < 128 THEN <<c>>
    ELSE IF c < 2048 THEN <<192 + (c \div 64), 128 + (c % 64)>>
    ELSE <<224 + (c \div 4096), 128 + ((c \div 64) % 64), 128 + (c % 64)>>

RECURSIVE EncodeUtf8(_)
EncodeUtf8(t) ==
    IF t = <<>> THEN <<>> ELSE EncodeUtf8Char(Head(t)) \o EncodeUtf8(Tail(t))

EncodeKoreanChar(c) ==
    IF c < 128 THEN <<c>>
    ELSE LET k == CHOOSE k \in KoreanCodes : k[3] = c IN <<k[1], k[2]>>

RECURSIVE EncodeKorean(_)
EncodeKorean(t) ==
    IF t = <<>> THEN <<>> ELSE EncodeKoreanChar(Head(t)) \o EncodeKorean(Tail(t))

\* whether text t can be written in the encoding
Encodable(t, encoding) ==
    CASE encoding \in {"utf-8", "utf-8-sig"} -> TRUE
      [] encoding = "cp949" ->
            \A c \in Range(t) : c < 128 \/ \E k \in KoreanCodes : k[3] = c
      [] encoding = "euc-kr" ->
            \A c \in Range(t) : c < 128 \/ \E k \in KoreanCodes : k[3] = c /\ k[4]
      [] encoding = "iso-8859-1" -> \A c \in Range(t) : c < 256

Encode(t, encoding) ==
    CASE encoding = "utf-8" -> EncodeUtf8(t)
      [] encoding = "utf-8-sig" -> BOM \o EncodeUtf8(t)
      [] encoding \in {"cp949", "euc-kr"} -> EncodeKorean(t)
      [] encoding = "iso-8859-1" -> t

-----------------------------------------------------------------------------
(* Text literals of the source, as code points *)

News == <<45684, 49828>>                \* U+B274 U+C2A4, the word "news"
Room == <<47352>>                       \* U+B8F8
Chosun == <<51312, 49440>>              \* U+C870 U+C120
DateHeader == <<45216, 51676>>          \* U+B0A0 U+C9DC, the date header
Ji == <<51648>>                         \* U+C9C0
JTBC == <<74, 84, 66, 67>>
MBN == <<77, 66, 78>>
TV == <<84, 86>>
Seg2049 == <<40, 50, 48, 52, 57, 41>>   \* "(2049)"

\* the garbled spellings the source writes (Latin-1 letters and signs)
GNews == <<235, 180, 236, 164>>         \* e-diaeresis, acute, i-grave, currency sign
GRoom == <<235, 163, 184>>              \* e-diaeresis, pound sign, cedilla
GChosun == <<236, 161, 176, 236, 32>>   \* i-grave, inverted !, degree, i-grave, space
GDate == <<235, 32, 236, 167>>          \* e-diaeresis, space, i-grave, section sign

\* the four channel names, then their (2049) variants
ChannelNames ==
    << News \o <<65>>, JTBC \o News \o Room, MBN \o News \o <<55>>,
       TV \o Chosun \o News \o <<57>>,
       News \o <<65>> \o Seg2049, JTBC \o News \o Room \o Seg2049,
       MBN \o News \o <<55>> \o Seg2049, TV \o Chosun \o News \o <<57>> \o Seg2049 >>

KnownNames == Range(ChannelNames) \cup {DateHeader}

-----------------------------------------------------------------------------
(* fix_korean_columns, lines 186-213 *)

\* lines 187-197: garbled whole name -> name
column_mapping ==
    << <<GNews \o <<65>>, ChannelNames[1]>>,
       <<JTBC \o GNews \o GRoom, ChannelNames[2]>>,
       <<MBN \o GNews \o <<55>>, ChannelNames[3]>>,
       <<TV \o GChosun \o GNews \o <<57>>, ChannelNames[4]>>,
       <<GNews \o <<65>> \o Seg2049, ChannelNames[5]>>,
       <<JTBC \o GNews \o GRoom \o Seg2049, ChannelNames[6]>>,
       <<MBN \o GNews \o <<55>> \o Seg2049, ChannelNames[7]>>,
       <<TV \o GChosun \o GNews \o <<57>> \o Seg2049, ChannelNames[8]>>,
       <<GDate, DateHeader>> >>

\* lines 204-207: garbled fragment -> fragment, in the order of the dict
replacements ==
    << <<GNews, News>>, <<GRoom, Room>>, <<GChosun, Chosun>>, <<<<236, 167>>, Ji>>,
       <<<<236>>, <<>>>>, <<<<235>>, <<>>>>, <<<<164>>, <<>>>>,
       <<<<184>>, <<>>>>, <<<<163>>, <<>>>> >>

\* line 199: df.rename(columns=column_mapping), for one label
Rename(col) ==
    IF \E i \in 1..Len(column_mapping) : column_mapping[i][1] = col
    THEN column_mapping[CHOOSE i \in 1..Len(column_mapping) : column_mapping[i][1] = col][2]
    ELSE col

\* a buggy variant of ReplaceOne: only the first occurrence is replaced
ReplaceOneFirstOnly(s, old, new) ==
    IF Contains(s, old)
    THEN LET i == CHOOSE i \in 1..Len(s) :
                      MatchAt(s, old, i) /\ \A j \in 1..(i - 1) : ~MatchAt(s, old, j)
         IN  SubSeq(s, 1, i - 1) \o new \o SubSeq(s, i + Len(old), Len(s))
    ELSE s

\* line 209: new_col = new_col.replace(old, new)
ReplaceOne(s, old, new) == StrReplace(s, old, new)

\* lines 208-209: the replacements from the k-th on, in order
RECURSIVE ApplyReplacements(_, _)
ApplyReplacements(s, k) ==
    IF k > Len(replacements) THEN s
    ELSE ApplyReplacements(ReplaceOne(s, replacements[k][1], replacements[k][2]), k + 1)

\* the repair of one column name: whole-name mapping, then the fragments
FixName(col) == ApplyReplacements(Rename(col), 1)

\* lines 186-213, on the column labels
fix_korean_columns(columns) == [i \in 1..Len(columns) |-> FixName(columns[i])]

-----------------------------------------------------------------------------
(* Cells and dates *)

\* a cell of the CSV as pandas holds it: a number, a text, or missing (NaN)
Num(n) == [k |-> "num", n |-> n, s |-> ""]
Str(s) == [k |-> "str", n |-> 0, s |-> s]
NaN == [k |-> "nan", n |-> 0, s |-> ""]

\* a datetime64 value: a day, or NaT
Date(d) == [nat |-> FALSE, day |-> d]
NaT == [nat |-> TRUE, day |-> 0]

IsLeap(y) == (y % 4 = 0 /\ y % 100 # 0) \/ y % 400 = 0

DaysInMonth(y, m) ==
    IF m = 2 THEN (IF IsLeap(y) THEN 29 ELSE 28)
    ELSE IF m \in {4, 6, 9, 11} THEN 30 ELSE 31

RECURSIVE DaysBeforeMonth(_, _)
DaysBeforeMonth(y, m) ==
    IF m <= 1 THEN 0 ELSE DaysBeforeMonth(y, m - 1) + DaysInMonth(y, m - 1)

\* leap years in 1900..y-1
LeapsBefore(y) ==
    (((y - 1) \div 4) - 474) - (((y - 1) \div 100) - 18) + (((y - 1) \div 400) - 4)

\* days from 1900-01-01 (a Monday) to y-m-d
DayNumber(y, m, d) == (y - 1900) * 365 + LeapsBefore(y) + DaysBeforeMonth(y, m) + (d - 1)

\* the dtype pandas infers for a column of cells
Dtype(cells) ==
    IF \E i \in 1..Len(cells) : cells[i].k = "str" THEN "object"
    ELSE IF \E i \in 1..Len(cells) : cells[i].k = "nan" THEN "float64"
    ELSE "int64"

\* line 222, one row: str(cell) parsed under '%y%m%d', errors='coerce'.
\* A six-digit number reads yymmdd (%y: 00..68 -> 20yy, 69..99 -> 19yy); in a
\* float64 column the text is "230101.0", which does not match; the text cells
\* considered here ("x", "2023-01-05") and "nan" do not match either.
ParseCompact(cell, dtype) ==
    IF cell.k = "num" /\ dtype # "float64" /\ cell.n \in 100000..999999
    THEN LET yy == cell.n \div 10000
             mm == (cell.n \div 100) % 100
             dd == cell.n % 100
             y == IF yy <= 68 THEN 2000 + yy ELSE 1900 + yy
         IN  IF mm \in 1..12 /\ dd \in 1..DaysInMonth(y, mm)
             THEN Date(DayNumber(y, mm, dd))
             ELSE NaT
    ELSE NaT

\* line 230: Series.dt.dayofweek, Monday = 0; NaN for NaT
dayofweek(date) == IF date.nat THEN NaN ELSE Num(date.day % 7)

\* line 227: pd.date_range(start='2023-01-01', periods=n, freq='D')
date_range(n) == [i \in 1..n |-> Date(DayNumber(2023, 1, 1) + (i - 1))]

\* line 240: pd.to_numeric(errors='coerce'), one cell
to_numeric(cell) == IF cell.k = "num" THEN cell ELSE NaN

-----------------------------------------------------------------------------
(* Tables *)

NoneDF == [none |-> TRUE, columns |-> <<>>, rows |-> <<>>]
EmptyDF == [none |-> FALSE, columns |-> <<>>, rows |-> <<>>]     \* pd.DataFrame()

\* DataFrame.empty
IsEmptyDF(df) == Len(df.columns) = 0 \/ Len(df.rows) = 0

\* the header line of the decoded text; the tokenizer skips a leading byte
\* order mark
ParseHeader(text) ==
    Split(IF Len(text) >= 1 /\ text[1] = 65279 THEN Tail(text) ELSE text, 44)

\* lines 165 and 182: pd.read_csv(StringIO(text)).  The rows of the content are
\* ASCII (digits and Latin letters), the same text under every candidate encoding;
\* a row with fewer fields than the header is filled with NaN.
read_csv(text, rem) ==
    IF text = <<>> THEN [err |-> "EmptyDataError", df |-> NoneDF]
    ELSE IF rem.malformed THEN [err |-> "ParserError", df |-> NoneDF]
    ELSE LET columns == ParseHeader(text)
         IN  [err |-> "none",
              df |-> [none |-> FALSE, columns |-> columns,
                      rows |-> [i \in 1..Len(rem.rows) |->
                                  [j \in 1..Len(columns) |->
                                      IF j <= Len(rem.rows[i]) THEN rem.rows[i][j]
                                      ELSE NaN]]]]

\* line 167
has_korean(columns) ==
    \E i \in 1..Len(columns) :
        \/ Contains(columns[i], News)
        \/ Contains(columns[i], JTBC)
        \/ Contains(columns[i], MBN)
        \/ Contains(columns[i], TV \o Chosun)

\* line 168
has_garbled(columns) ==
    \E i \in 1..Len(columns) :
        \/ Contains(columns[i], <<235>>)
        \/ Contains(columns[i], <<236>>)
        \/ Contains(columns[i], <<236, 161>>)

\* a buggy variant of TryEncodings: the first candidate that decodes and parses
\* is taken, its header not looked at
RECURSIVE TryEncodingsUntested(_, _, _)
TryEncodingsUntested(rem, i, df) ==
    IF i > Len(encodings) THEN [raised |-> "none", df |-> df, encoding_used |-> "None"]
    ELSE LET dec == Decode(rem.bytes, encodings[i])
             csv == read_csv(dec.text, rem)
         IN  IF ~dec.ok THEN TryEncodingsUntested(rem, i + 1, df)
             ELSE IF csv.err = "EmptyDataError" THEN TryEncodingsUntested(rem, i + 1, df)
             ELSE IF csv.err # "none"
                  THEN [raised |-> csv.err, df |-> df, encoding_used |-> "None"]
             ELSE [raised |-> "none", df |-> csv.df, encoding_used |-> encodings[i]]

\* lines 162-175: the candidates from the i-th on; df is the table parsed last.
\* [raised, df, encoding_used]: raised carries an exception the loop does not catch
RECURSIVE TryEncodings(_, _, _)
TryEncodings(rem, i, df) ==
    IF i > Len(encodings) THEN [raised |-> "none", df |-> df, encoding_used |-> "None"]
    ELSE LET dec == Decode(rem.bytes, encodings[i])
             csv == read_csv(dec.text, rem)
         IN  IF ~dec.ok THEN TryEncodings(rem, i + 1, df)
             ELSE IF csv.err = "EmptyDataError" THEN TryEncodings(rem, i + 1, df)
             ELSE IF csv.err # "none"
                  THEN [raised |-> csv.err, df |-> df, encoding_used |-> "None"]
             ELSE IF has_korean(csv.df.columns) \/ ~has_garbled(csv.df.columns)
                  THEN [raised |-> "none", df |-> csv.df, encoding_used |-> encodings[i]]
                  ELSE TryEncodings(rem, i + 1, csv.df)

-----------------------------------------------------------------------------
(* load_data, lines 139-260 *)

original_date == <<111, 114, 105, 103, 105, 110, 97, 108, 95, 100, 97, 116, 101>>
date == <<100, 97, 116, 101>>
weekday == <<119, 101, 101, 107, 100, 97, 121>>

\* line 235: 'date', 'original_date', the date header, 'Date', 'DATE', 'weekday'
exclude_columns ==
    {date, original_date, DateHeader, <<68, 97, 116, 101>>, <<68, 65, 84, 69>>, weekday}

\* a buggy variant of DeriveDates: the synthetic sequence is never substituted
DeriveDatesNoSynthetic(cells) == [i \in 1..Len(cells) |-> ParseCompact(cells[i], Dtype(cells))]

\* lines 221-227: the date column from the cells of the date source column
DeriveDates(cells) ==
    LET parsed == [i \in 1..Len(cells) |-> ParseCompact(cells[i], Dtype(cells))]
    IN  IF \A i \in 1..Len(parsed) : parsed[i].nat
        THEN date_range(Len(cells))
        ELSE parsed

\* date order of sort_values: ascending, NaT last
DateLE(a, b) == b.nat \/ (~a.nat /\ a.day <= b.day)

\* r inserted into the sorted rows, after the rows it does not precede
RECURSIVE InsertRow(_, _)
InsertRow(rows, r) ==
    IF rows = <<>> THEN <<r>>
    ELSE IF DateLE(Head(rows).date, r.date)
         THEN <<Head(rows)>> \o InsertRow(Tail(rows), r)
         ELSE <<r>> \o rows

\* line 231: df.sort_values('date').reset_index(drop=True)
RECURSIVE sort_values(_)
sort_values(rows) ==
    IF rows = <<>> THEN <<>>
    ELSE InsertRow(sort_values(SubSeq(rows, 1, Len(rows) - 1)), rows[Len(rows)])

\* line 231: reset_index(drop=True), the index renumbered from 0 in row order
reset_index(rows) == [i \in 1..Len(rows) |-> [rows[i] EXCEPT !.index = i - 1]]

\* lines 237-244, the test of one column: coerced, and not entirely NaN
IsNumericColumn(rows, j) == \E i \in 1..Len(rows) : to_numeric(rows[i].cells[j]).k = "num"

\* lines 253: (df['date'].min(), df['date'].max()), NaT skipped
DateRangeOf(rows) ==
    LET days == {rows[i].date.day : i \in {k \in 1..Len(rows) : ~rows[k].date.nat}}
    IN  IF days = {} THEN <<NaT, NaT>>
        ELSE <<Date(CHOOSE d \in days : \A e \in days : d <= e),
               Date(CHOOSE d \in days : \A e \in days : d >= e)>>

\* lines 258-260: the return value of the handler
Failure(message) ==
    [df |-> EmptyDF, numeric_columns |-> <<>>,
     info |-> [error_type |-> "processing", message |-> message,
               encoding |-> "absent", rows |-> 0, columns |-> 0, column_names |-> <<>>,
               date_column |-> <<>>, numeric_columns |-> <<>>,
               date_range |-> <<NaT, NaT>>]]

IsFailure(r) == r.info.error_type # "absent"

\* lines 215-256: repair, dates, weekday, sort, numeric columns, diagnostics
Process(df0, encoding_used) ==
    LET cols == fix_korean_columns(df0.columns)
        date_col == cols[1]
        n == Len(df0.rows)
        coerced(j) == cols[j] \notin exclude_columns
        columns == cols \o <<original_date, date, weekday>>
    IN  With(DeriveDates([i \in 1..n |-> df0.rows[i][1]]), LAMBDA dates :
        With([i \in 1..n |->
                [index |-> i - 1,
                 cells |-> df0.rows[i], original_date |-> df0.rows[i][1],
                 date |-> dates[i], weekday |-> dayofweek(dates[i])]], LAMBDA rows1 :
        With(reset_index(sort_values(rows1)), LAMBDA rows2 :
        With([i \in 1..n |->
                [rows2[i] EXCEPT !.cells =
                    [j \in 1..Len(cols) |->
                        IF coerced(j) THEN to_numeric(rows2[i].cells[j])
                        ELSE rows2[i].cells[j]]]], LAMBDA rows3 :
        With(LET idx == SelectSeq([j \in 1..Len(cols) |-> j],
                                  LAMBDA j : coerced(j) /\ IsNumericColumn(rows2, j))
             IN  [k \in 1..Len(idx) |-> cols[idx[k]]], LAMBDA numeric_columns :
            [df |-> [none |-> FALSE, columns |-> columns, rows |-> rows3],
             numeric_columns |-> numeric_columns,
             info |-> [error_type |-> "absent", message |-> "absent",
                       encoding |-> encoding_used, rows |-> n, columns |-> Len(columns),
                       column_names |-> columns, date_column |-> date_col,
                       numeric_columns |-> numeric_columns,
                       date_range |-> DateRangeOf(rows3)]])))))

\* lines 215-260 on what lines 153-183 left: df is None -> AttributeError at 199
Finish(df0, encoding_used) ==
    IF df0.none THEN Failure("AttributeError") ELSE Process(df0, encoding_used)

\* lines 177-183: the fallback of the inner handler, a third request
Fallback(rem, net) ==
    IF ~net[3] THEN [value |-> Failure("RequestException"), gets |-> 3]
    ELSE With(read_csv(DecodeUtf8Replace(rem.bytes), rem), LAMBDA csv :
             IF csv.err # "none" THEN [value |-> Failure(csv.err), gets |-> 3]
             ELSE [value |-> Finish(csv.df, "fallback"), gets |-> 3])

\* One execution of the body of load_data on the content rem, net[k] telling
\* whether the k-th request succeeds: the value returned and the number of
\* HTTP GETs performed.
RunLoadData(rem, net) ==
    IF ~net[1] THEN [value |-> Failure("RequestException"), gets |-> 1]    \* 149-150
    ELSE IF ~net[2] THEN Fallback(rem, net)                                  \* 157-158
    ELSE With(TryEncodings(rem, 1, NoneDF), LAMBDA rec :
             IF rec.raised # "none" THEN Fallback(rem, net)
             ELSE [value |-> Finish(rec.df, rec.encoding_used), gets |-> 2])

load_data(rem, net) == RunLoadData(rem, net).value

-----------------------------------------------------------------------------
(* Numbers and dates of the transforms *)

\* Series values are exact fractions p/q in lowest terms (q > 0), or NaN;
\* floating-point rounding is not modelled.
RECURSIVE GCD(_, _)
GCD(a, b) == IF b = 0 THEN a ELSE GCD(b, a % b)

Abs(x) == IF x < 0 THEN -x ELSE x

Rat(p, q) ==
    LET g == GCD(Abs(p), Abs(q))
        sgn == IF q < 0 THEN -1 ELSE 1
    IN  [k |-> "num", p |-> sgn * (p \div g), q |-> sgn * (q \div g)]

NoValue == [k |-> "nan", p |-> 0, q |-> 1]          \* float NaN

IsNum(x) == x.k = "num"

\* a cell of the table as a series value
CellValue(cell) == IF cell.k = "num" THEN Rat(cell.n, 1) ELSE NoValue

\* float arithmetic: NaN propagates
RatSub(a, b) ==
    IF IsNum(a) /\ IsNum(b) THEN Rat(a.p * b.q - b.p * a.q, a.q * b.q) ELSE NoValue

\* a < b; any comparison with NaN is false
RatLT(a, b) == IsNum(a) /\ IsNum(b) /\ a.p * b.q < b.p * a.q

\* the sum of the fractions xs[lo..hi], by halves
RECURSIVE SumP(_, _, _)
SumP(xs, lo, hi) ==
    IF lo > hi THEN Rat(0, 1)
    ELSE IF lo = hi THEN xs[lo]
    ELSE LET mid == (lo + hi) \div 2
             a == SumP(xs, lo, mid)
             b == SumP(xs, mid + 1, hi)
         IN  Rat(a.p * b.q + b.p * a.q, a.q * b.q)

\* Series.mean(): the mean of the values that are not NaN; NaN when there is none
Mean(xs) ==
    LET nums == SelectSeq(xs, IsNum)
        s == SumP(nums, 1, Len(nums))
    IN  IF nums = <<>> THEN NoValue ELSE Rat(s.p, s.q * Len(nums))

\* the calendar year, month and day of a day number
YearOf(day) ==
    CHOOSE y \in (1899 + (day \div 365))..(1900 + (day \div 365)) :
        DayNumber(y, 1, 1) <= day /\ day < DayNumber(y + 1, 1, 1)
MonthOf(day) ==
    LET y == YearOf(day)
    IN  CHOOSE m \in 1..12 :
            /\ DayNumber(y, m, 1) <= day
            /\ day < DayNumber(y, m, 1) + DaysInMonth(y, m)
DayOf(day) == day - DayNumber(YearOf(day), MonthOf(day), 1) + 1

Min2(a, b) == IF a <= b THEN a ELSE b

\* ts - pd.DateOffset(months=n): n months earlier, the day of the month kept
\* unless the month is shorter, then its last day
SubMonths(day, n) ==
    LET t == YearOf(day) * 12 + (MonthOf(day) - 1) - n
        y == t \div 12
        m == (t % 12) + 1
    IN  DayNumber(y, m, Min2(DayOf(day), DaysInMonth(y, m)))

\* ts - pd.DateOffset(years=1): the same month and day of the year before
\* (28 February for 29 February)
SubYears(day, n) ==
    LET y == YearOf(day) - n
        m == MonthOf(day)
    IN  DayNumber(y, m, Min2(DayOf(day), DaysInMonth(y, m)))

-----------------------------------------------------------------------------
(* The table in the script, and the transforms *)

\* A DataFrame object of the script: the columns and rows of a table, and the
\* columns assigned to it afterwards, each a name and one value per row.
Frame(t) == [columns |-> t.columns, rows |-> t.rows, added |-> <<>>]

NoTable == Frame(EmptyDF)

\* df.columns
FrameColumns(f) == f.columns \o [i \in 1..Len(f.added) |-> f.added[i].name]

\* the first position of x in s
IndexOf(s, x) == CHOOSE i \in 1..Len(s) : s[i] = x /\ \A m \in 1..(i - 1) : s[m] # x

\* df[col] as a series of values, col a column assigned afterwards or a
\* column of the header
ColumnValues(f, col) ==
    IF \E a \in 1..Len(f.added) : f.added[a].name = col
    THEN f.added[IndexOf([a \in 1..Len(f.added) |-> f.added[a].name], col)].values
    ELSE LET j == IndexOf(f.columns, col)
         IN  [i \in 1..Len(f.rows) |-> CellValue(f.rows[i].cells[j])]

\* df[col] = values: a new column, or the column of that name replaced
SetColumn(f, col, values) ==
    IF \E a \in 1..Len(f.added) : f.added[a].name = col
    THEN [f EXCEPT !.added = [a \in 1..Len(f.added) |->
                                 IF f.added[a].name = col
                                 THEN [name |-> col, values |-> values]
                                 ELSE f.added[a]]]
    ELSE [f EXCEPT !.added = Append(f.added, [name |-> col, values |-> values])]

\* the rows of the table whose weekday is in days, a new object (the index kept)
RowsOn(t, days) ==
    [t EXCEPT !.rows = SelectSeq(t.rows, LAMBDA r : r.weekday.k = "num" /\ r.weekday.n \in days)]

\* lines 263-269; day_type is "weekdays", "weekend" or "all" for the three
\* labels of the radio.  same: the object returned is the object given.
filter_by_day_type(t, day_type) ==
    IF day_type = "weekdays" THEN [same |-> FALSE, df |-> RowsOn(t, 0..4)]
    ELSE IF day_type = "weekend" THEN [same |-> FALSE, df |-> RowsOn(t, {5, 6})]
    ELSE [same |-> TRUE, df |-> t]

\* lines 285-292: the keys of the dictionary, in order
create_channels_dict(numeric_columns, show_2049) ==
    SelectSeq(numeric_columns, LAMBDA c : Contains(c, <<50, 48, 52, 57>>) <=> show_2049)

\* str(n) for n >= 0
RECURSIVE Digits(_)
Digits(n) == IF n < 10 THEN <<48 + n>> ELSE Digits(n \div 10) \o <<48 + (n % 10)>>

\* f"{channel}_MA{period}"
MAName(channel, period) == channel \o <<95, 77, 65>> \o Digits(period)

\* Series.rolling(window=window, min_periods=1).mean()
rolling_mean(xs, window) ==
    [i \in 1..Len(xs) |->
        Mean(SubSeq(xs, IF i - window + 1 < 1 THEN 1 ELSE i - window + 1, i))]

\* the pairs (channel, period) in the order of the nested loops
Pairs(channels, periods) ==
    [k \in 1..(Len(channels) * Len(periods)) |->
        <<channels[((k - 1) \div Len(periods)) + 1], periods[((k - 1) % Len(periods)) + 1]>>]

\* lines 296-300: the rolling averages assigned to the table given
RECURSIVE AddAverages(_, _, _)
AddAverages(f, pairs, k) ==
    IF k > Len(pairs) THEN f
    ELSE LET channel == pairs[k][1]
             period == pairs[k][2]
         IN  IF channel \in Range(FrameColumns(f)) /\ Len(f.rows) >= period
             THEN AddAverages(SetColumn(f, MAName(channel, period),
                                        rolling_mean(ColumnValues(f, channel), period)),
                              pairs, k + 1)
             ELSE AddAverages(f, pairs, k + 1)

AllNaN(xs) == \A i \in 1..Len(xs) : ~IsNum(xs[i])

\* lines 295-369: the table as the call leaves it and the traces of the figure
create_moving_average_chart(f, channels, periods, CHANNELS) ==
    LET g == AddAverages(f, Pairs(channels, periods), 1)
        drawn == SelectSeq(Pairs(channels, periods),
                           LAMBDA cp :
                               /\ cp[1] \in Range(CHANNELS)
                               /\ MAName(cp[1], cp[2]) \in Range(FrameColumns(g))
                               /\ ~AllNaN(ColumnValues(g, MAName(cp[1], cp[2]))))
    IN  [df |-> g,
         traces |-> [k \in 1..Len(drawn) |->
                        [channel |-> drawn[k][1], period |-> drawn[k][2],
                         x |-> [i \in 1..Len(g.rows) |-> g.rows[i].date],
                         y |-> ColumnValues(g, MAName(drawn[k][1], drawn[k][2]))]]]

\* lines 955-964: the latest average of each of the first four channels
latest_metrics(f, channels, periods) ==
    LET shown == SelectSeq(Pairs(SubSeq(channels, 1, Min2(Len(channels), 4)), periods),
                           LAMBDA cp :
                               /\ MAName(cp[1], cp[2]) \in Range(FrameColumns(f))
                               /\ Len(f.rows) > 0
                               /\ IsNum(ColumnValues(f, MAName(cp[1], cp[2]))[Len(f.rows)]))
    IN  [k \in 1..Len(shown) |->
            [channel |-> shown[k][1], period |-> shown[k][2],
             latest |-> ColumnValues(f, MAName(shown[k][1], shown[k][2]))[Len(f.rows)]]]

\* Series.max() of the dates, NaT skipped; NaT when there is none
LatestDate(rows) == DateRangeOf(rows)[2]

\* the labels of the period radio: the word "recent", a count, the word "months"
Recent(digits) == <<52572, 44540, 32>> \o digits \o <<44060, 50900>>
ComparisonTypes == {Recent(Digits(m)) : m \in {1, 3, 6, 9, 12}}

\* lines 386-395: the count read from the label, by substring
months_count(comparison_type) ==
    IF Contains(comparison_type, <<49, 44060, 50900>>) THEN 1
    ELSE IF Contains(comparison_type, <<51, 44060, 50900>>) THEN 3
    ELSE IF Contains(comparison_type, <<54, 44060, 50900>>) THEN 6
    ELSE IF Contains(comparison_type, <<57, 44060, 50900>>) THEN 9
    ELSE 12

NoDates == <<NaT, NaT>>       \* custom_dates = None

\* df[(df['date'] >= lo) & (df['date'] <= hi)]: comparisons with NaT are false
Between(rows, lo, hi) ==
    SelectSeq(rows, LAMBDA r : ~r.date.nat /\ lo <= r.date.day /\ r.date.day <= hi)

\* df[rows][channel].mean()
ChannelMean(f, rows, channel) ==
    LET j == IndexOf(f.columns, channel)
    IN  Mean([i \in 1..Len(rows) |-> CellValue(rows[i].cells[j])])

\* a buggy variant of PeriodMean: the mean of no rows is given as zero
PeriodMeanZeroFilled(f, lo, hi, channel) ==
    LET m == ChannelMean(f, Between(f.rows, lo, hi), channel)
    IN  IF IsNum(m) THEN m ELSE Rat(0, 1)

\* lines 411-418 and 427-428: the mean of one channel over the rows of a
\* period; Series.get(channel, 0) of a mean that is there, NaN included
PeriodMean(f, lo, hi, channel) == ChannelMean(f, Between(f.rows, lo, hi), channel)

\* a buggy variant of PriorYear: 365 days earlier
PriorYearByDays(day) == day - 365

\* lines 378-379 and 402-403: the day one calendar year earlier
PriorYear(day) == SubYears(day, 1)

\* lines 372-487: the periods and, for each selected channel, the bars and the
\* label of the difference ("signed": the difference with its sign; "zero":
\* the label of no difference, also given when the difference is NaN)
create_period_comparison_chart(f, channels, CHANNELS, comparison_type, custom_dates) ==
    LET latest_date == LatestDate(f.rows).day
        end_date == IF custom_dates # NoDates THEN custom_dates[2].day ELSE latest_date
        start_date == IF custom_dates # NoDates THEN custom_dates[1].day
                      ELSE SubMonths(end_date, months_count(comparison_type))
        prev_start_date == PriorYear(start_date)
        prev_end_date == PriorYear(end_date)
        drawn == SelectSeq(channels, LAMBDA c : c \in Range(CHANNELS))
    IN  [current |-> <<start_date, end_date>>,
         previous |-> <<prev_start_date, prev_end_date>>,
         bars |-> [k \in 1..Len(drawn) |->
                     LET prev_val == PeriodMean(f, prev_start_date, prev_end_date, drawn[k])
                         curr_val == PeriodMean(f, start_date, end_date, drawn[k])
                         diff == RatSub(curr_val, prev_val)
                     IN  [channel |-> drawn[k], prev_val |-> prev_val, curr_val |-> curr_val,
                          diff |-> diff,
                          diff_text |-> IF IsNum(diff) /\ Abs(diff.p) * 100 >= diff.q
                                        THEN "signed" ELSE "zero",
                          color |-> IF RatLT(diff, Rat(0, 1)) THEN "red" ELSE "green"]]]

\* the options of the period of the weekday analysis: the label of every row
\* (U+C804 U+CCB4), or a label of Recent
Whole == <<51204, 52404>>
PeriodTypes == {Whole} \cup ComparisonTypes

\* lines 560-576 and 1026-1042: the rows of the period, dated from the start on
PeriodRows(t, period_type) ==
    IF period_type \in ComparisonTypes
    THEN LET m == CHOOSE c \in {1, 3, 6, 9, 12} : period_type = Recent(Digits(c))
             start_date == SubMonths(LatestDate(t.rows).day, m)
         IN  SelectSeq(t.rows, LAMBDA r : ~r.date.nat /\ r.date.day >= start_date)
    ELSE t.rows

\* lines 583-591 and 1049-1057: the weekdays of the ordering, Monday = 0
weekday_order(day_type) ==
    IF day_type = "weekdays" THEN <<0, 1, 2, 3, 4>>
    ELSE IF day_type = "weekend" THEN <<5, 6>>
    ELSE <<0, 1, 2, 3, 4, 5, 6>>

\* rows whose date falls on the weekday named (day_name() of NaT names none)
OnDay(rows, day) == SelectSeq(rows, LAMBDA r : r.weekday.k = "num" /\ r.weekday.n = day)

\* lines 556-637: per drawn channel, the mean of each weekday of the ordering,
\* 0 for a weekday without rows; the table given is copied, not changed
create_weekday_chart(t, channels, CHANNELS, period_type, day_filter) ==
    LET df_weekday == Frame([t EXCEPT !.rows = PeriodRows(t, period_type)])
        order == weekday_order(day_filter)
        drawn == SelectSeq(channels, LAMBDA c : c \in Range(CHANNELS) /\ c \in Range(t.columns))
    IN  [k \in 1..Len(drawn) |->
            [channel |-> drawn[k],
             y_values |-> [d \in 1..Len(order) |->
                              IF OnDay(df_weekday.rows, order[d]) = <<>> THEN Rat(0, 1)
                              ELSE ChannelMean(df_weekday, OnDay(df_weekday.rows, order[d]),
                                               drawn[k])]]]

\* np.mean of a list: NaN if a value is NaN
MeanOfAll(xs) == IF \E i \in 1..Len(xs) : ~IsNum(xs[i]) THEN NoValue ELSE Mean(xs)

\* float division and multiplication by 100; x/0 is inf, 0/0 is NaN
PercentOf(a, b) ==
    IF ~IsNum(a) \/ ~IsNum(b) THEN NoValue
    ELSE IF b.p = 0 THEN (IF a.p = 0 THEN NoValue ELSE [k |-> "inf", p |-> a.p, q |-> 1])
    ELSE Rat(a.p * b.q * 100, a.q * b.p)

\* max(d, key=d.get) and min(d, key=d.get): the first entry no later entry beats
RECURSIVE Best(_, _, _, _)
Best(entries, k, best, greater) ==
    IF k > Len(entries) THEN best
    ELSE IF (greater /\ RatLT(best.avg, entries[k].avg))
              \/ (~greater /\ RatLT(entries[k].avg, best.avg))
         THEN Best(entries, k + 1, entries[k], greater)
         ELSE Best(entries, k + 1, best, greater)

\* a buggy variant of DayAverages: every weekday of the ordering gets an
\* entry, 0 for a weekday without rows
DayAveragesZeroFilled(f, channels, order) ==
    [k \in 1..Len(order) |->
        [day |-> order[k],
         avg |-> IF OnDay(f.rows, order[k]) = <<>> THEN Rat(0, 1)
                 ELSE Mean([c \in 1..Len(channels) |->
                               ChannelMean(f, OnDay(f.rows, order[k]), channels[c])])]]

\* lines 1065-1071: for each weekday of the ordering that has rows, the mean
\* over the channels of the channel means
DayAverages(f, channels, order) ==
    LET days == SelectSeq(order, LAMBDA d : OnDay(f.rows, d) # <<>>)
    IN  [k \in 1..Len(days) |->
            [day |-> days[k],
             avg |-> Mean([c \in 1..Len(channels) |->
                              ChannelMean(f, OnDay(f.rows, days[k]), channels[c])])]]

\* lines 1024-1110: the weekday pattern analysis
weekday_pattern(t, channels, period_type, day_type) ==
    With(DayAverages(Frame([t EXCEPT !.rows = PeriodRows(t, period_type)]), channels,
                     weekday_order(day_type)), LAMBDA all_channels_avg :
        LET n == Len(all_channels_avg)
            max_day == Best(all_channels_avg, 2, all_channels_avg[1], TRUE)
            min_day == Best(all_channels_avg, 2, all_channels_avg[1], FALSE)
            avg_values == [k \in 1..n |-> all_channels_avg[k].avg]
        IN  With(IF n > 1 THEN PercentOf(RatSub(max_day.avg, min_day.avg),
                                         MeanOfAll(avg_values))
                 ELSE NoValue, LAMBDA variation :
            [all_channels_avg |-> all_channels_avg,
             max_day |-> IF n > 0 THEN max_day.day ELSE -1,
             min_day |-> IF n > 0 THEN min_day.day ELSE -1,
             note |-> IF n > 1 THEN "spread" ELSE IF n = 1 THEN "single" ELSE "no data",
             variation |-> variation,
             level |-> IF n <= 1 THEN "none"
                       ELSE IF RatLT(Rat(20, 1), variation)
                                 \/ (variation.k = "inf" /\ variation.p > 0)
                            THEN "high"
                       ELSE IF RatLT(Rat(10, 1), variation) THEN "medium"
                       ELSE "low"]))

\* a/b against c/d (a, c >= 0, b, d > 0): -1, 0 or 1, by the integer parts and
\* then the reciprocals of the remainders, so that no product is formed
RECURSIVE CmpFrac(_, _, _, _)
CmpFrac(a, b, c, d) ==
    IF a \div b # c \div d THEN (IF a \div b < c \div d THEN -1 ELSE 1)
    ELSE IF a % b = 0 /\ c % d = 0 THEN 0
    ELSE IF a % b = 0 THEN -1
    ELSE IF c % d = 0 THEN 1
    ELSE CmpFrac(d, c % d, b, a % b)

\* the largest k in lo..hi with (k - 1/2) / 1000 <= sqrt(a / b)
RECURSIVE LargestK(_, _, _, _)
LargestK(lo, hi, a, b) ==
    IF lo = hi THEN lo
    ELSE LET mid == (lo + hi + 1) \div 2
         IN  IF CmpFrac((2 * mid - 1) * (2 * mid - 1), 4000000, a, b) <= 0
             THEN LargestK(mid, hi, a, b)
             ELSE LargestK(lo, mid - 1, a, b)

\* round(x, 3) of x = sgn * sqrt(a / b), 0 <= a <= b: thousandths, a tie to the
\* even one
Round3(sgn, a, b) ==
    LET k == LargestK(0, 1000, a, b)
        tie == k > 0 /\ CmpFrac((2 * k - 1) * (2 * k - 1), 4000000, a, b) = 0
    IN  Rat(sgn * (IF tie /\ k % 2 = 1 THEN k - 1 ELSE k), 1000)

\* the sum of the integers xs[lo..hi], by halves
RECURSIVE SumInt(_, _, _)
SumInt(xs, lo, hi) ==
    IF lo > hi THEN 0
    ELSE IF lo = hi THEN xs[lo]
    ELSE SumInt(xs, lo, (lo + hi) \div 2) + SumInt(xs, ((lo + hi) \div 2) + 1, hi)

\* DataFrame.corr() of two columns, rounded as at line 700: Pearson's
\* coefficient over the rows where both hold a number; NaN with fewer than two
\* such rows or a column that does not vary
Correlation(f, rows, a, b) ==
    LET ja == IndexOf(f.columns, a)
        jb == IndexOf(f.columns, b)
        both == SelectSeq(rows, LAMBDA r : r.cells[ja].k = "num" /\ r.cells[jb].k = "num")
        n == Len(both)
        xs == [i \in 1..n |-> both[i].cells[ja].n]
        ys == [i \in 1..n |-> both[i].cells[jb].n]
        sx == SumInt(xs, 1, n)
        sy == SumInt(ys, 1, n)
        cov == n * SumInt([i \in 1..n |-> xs[i] * ys[i]], 1, n) - sx * sy
        vx == n * SumInt([i \in 1..n |-> xs[i] * xs[i]], 1, n) - sx * sx
        vy == n * SumInt([i \in 1..n |-> ys[i] * ys[i]], 1, n) - sy * sy
        g == GCD(cov * cov, vx * vy)
    IN  IF n < 2 \/ vx = 0 \/ vy = 0 THEN NoValue
        ELSE Round3(IF cov < 0 THEN -1 ELSE 1, (cov * cov) \div g, (vx * vy) \div g)

\* |a| >= |b|
AbsGE(a, b) == IsNum(a) /\ IsNum(b) /\ Abs(a.p) * b.q >= Abs(b.p) * a.q

\* x put into pairs sorted by descending absolute value, NaN last, behind the
\* pairs it does not precede
RECURSIVE InsertPair(_, _)
InsertPair(pairs, x) ==
    IF pairs = <<>> THEN <<x>>
    ELSE IF ~IsNum(x.coef) \/ AbsGE(Head(pairs).coef, x.coef)
         THEN <<Head(pairs)>> \o InsertPair(Tail(pairs), x)
         ELSE <<x>> \o pairs

\* line 703: sort_values(key=abs, ascending=False)
RECURSIVE SortPairs(_)
SortPairs(pairs) ==
    IF pairs = <<>> THEN <<>>
    ELSE InsertPair(SortPairs(SubSeq(pairs, 1, Len(pairs) - 1)), pairs[Len(pairs)])

\* the options of the analysis period: 0 for the label of every row, or the
\* number of latest rows; -1 is None
AnalysisPeriods == {0, 30, 90, 180}
NoPeriod == -1

\* lines 640-705: the pairs of the channels in the order of the two loops,
\* then sorted
create_correlation_analysis(f, channels, analysis_period, custom_analysis_dates) ==
    LET n == Len(f.rows)
        recent_data ==
            IF custom_analysis_dates # NoDates
            THEN Between(f.rows, custom_analysis_dates[1].day, custom_analysis_dates[2].day)
            ELSE IF analysis_period # 0
                 THEN SubSeq(f.rows, IF n - analysis_period + 1 < 1 THEN 1
                                     ELSE n - analysis_period + 1, n)
                 ELSE f.rows
        m == Len(channels)
        ij == SelectSeq([k \in 1..(m * m) |-> <<((k - 1) \div m) + 1, ((k - 1) % m) + 1>>],
                        LAMBDA p : p[1] < p[2])
    IN  SortPairs([k \in 1..Len(ij) |->
                      [first |-> channels[ij[k][1]], second |-> channels[ij[k][2]],
                       coef |-> Correlation(f, recent_data,
                                            channels[ij[k][1]], channels[ij[k][2]])]])

\* nothing produced yet, no selection made yet
NoView == [chart |-> "none"]
NoSel == [chart_type |-> "none"]

\* the sequences without repetition of members of s: what a multiselect returns
RECURSIVE Arrangements(_)
Arrangements(s) ==
    {<<>>} \cup UNION {{<<x>> \o a : a \in Arrangements(s \ {x})} : x \in s}

\* the options of the period multiselect, line 787, and its possible values
PeriodOptions == <<30, 90, 180>>
PeriodChoices == {SelectSeq(PeriodOptions, LAMBDA w : w \in c) : c \in SUBSET Range(PeriodOptions)}

DayTypes == {"weekdays", "weekend", "all"}

\* a buggy variant of enough_channels: one channel is let through
enough_channels_one(channels) == Len(channels) >= 1

\* line 1121: the guard of the correlation analysis
enough_channels(channels) == Len(channels) >= 2

\* lines 829-833 and 895-899: the dates picked, or None when they are not in
\* order or outside the dates of the table
custom_range(info, start, end) ==
    IF start < info.date_range[1].day \/ end > info.date_range[2].day \/ start > end
    THEN NoDates
    ELSE <<Date(start), Date(end)>>

\* lines 743, 757 and 939-1177: the main chart of a run on the result r of
\* load_data with the selections s.  table: the script's df when the run
\* ends; given / left: filtered_df as handed to the chart and as the chart
\* leaves it.
MainChart(r, s) ==
    With(filter_by_day_type(r.df, s.day_type), LAMBDA filtered :
    With(Frame(filtered.df), LAMBDA filtered_df :
    With(create_channels_dict(r.numeric_columns, s.show_2049), LAMBDA CHANNELS :
    LET idle(chart) == [table |-> Frame(r.df),
                        view |-> [chart |-> chart, given |-> filtered_df, left |-> filtered_df]]
    IN  IF s.channels = <<>> \/ IsEmptyDF(filtered.df) THEN idle("warning")
        ELSE IF s.chart_type = "moving average"
        THEN IF s.periods = <<>> THEN idle("nothing")
             ELSE With(create_moving_average_chart(filtered_df, s.channels,
                                                   s.periods, CHANNELS), LAMBDA ma :
                      [table |-> IF filtered.same THEN ma.df ELSE Frame(r.df),
                       view |-> [chart |-> "moving average",
                                 given |-> filtered_df, left |-> ma.df,
                                 traces |-> ma.traces,
                                 metrics |-> latest_metrics(ma.df, s.channels, s.periods)]])
        ELSE IF s.chart_type = "period comparison"
        THEN IF s.use_custom_dates /\ s.custom_dates # NoDates
             THEN [table |-> Frame(r.df),
                   view |-> [chart |-> "period comparison",
                             given |-> filtered_df, left |-> filtered_df,
                             fig |-> create_period_comparison_chart(
                                         filtered_df, s.channels, CHANNELS,
                                         Recent(Digits(6)), s.custom_dates)]]
             ELSE IF s.comparison_type # <<>>
             THEN [table |-> Frame(r.df),
                   view |-> [chart |-> "period comparison",
                             given |-> filtered_df, left |-> filtered_df,
                             fig |-> create_period_comparison_chart(
                                         filtered_df, s.channels, CHANNELS,
                                         s.comparison_type, NoDates)]]
             ELSE idle("warning")
        ELSE IF s.chart_type = "scatter"
        THEN [table |-> Frame(r.df),
              view |-> [chart |-> "scatter", given |-> filtered_df, left |-> filtered_df,
                        traces |-> LET drawn == SelectSeq(s.channels,
                                                          LAMBDA c : c \in Range(CHANNELS))
                                   IN  [k \in 1..Len(drawn) |->
                                           [channel |-> drawn[k],
                                            y |-> ColumnValues(filtered_df, drawn[k])]]]]
        ELSE IF s.chart_type = "weekday"
        THEN [table |-> Frame(r.df),
              view |-> [chart |-> "weekday", given |-> Frame(r.df), left |-> Frame(r.df),
                        bars |-> create_weekday_chart(r.df, s.channels, CHANNELS,
                                                      s.period_type, s.day_type),
                        pattern |-> weekday_pattern(r.df, s.channels,
                                                    s.period_type, s.day_type)]]
        ELSE IF enough_channels(s.channels)
        THEN IF s.use_custom_dates /\ s.custom_dates # NoDates
             THEN [table |-> Frame(r.df),
                   view |-> [chart |-> "correlation",
                             given |-> filtered_df, left |-> filtered_df,
                             corr_df |-> create_correlation_analysis(
                                             filtered_df, s.channels, NoPeriod,
                                             s.custom_dates)]]
             ELSE IF s.analysis_period # NoPeriod
             THEN [table |-> Frame(r.df),
                   view |-> [chart |-> "correlation",
                             given |-> filtered_df, left |-> filtered_df,
                             corr_df |-> create_correlation_analysis(
                                             filtered_df, s.channels, s.analysis_period,
                                             NoDates)]]
             ELSE idle("warning")
        ELSE idle("warning"))))

-----------------------------------------------------------------------------
(* The content the remote source serves *)

MaxRows == 3        \* rows of a served table
MaxNameLen == 4     \* length of the column names given to the repair
MaxClock == 650     \* seconds the clock runs

\* The text `text`, written in `enc`, with the rows `rows`.  enc = "double" is
\* text that was read as Latin-1 and written again as UTF-8; enc = "as-is" is
\* garbled text served as UTF-8, `text` being what it garbles.
Content(text, enc, bytes, rows) ==
    [bytes |-> bytes, malformed |-> FALSE, rows |-> rows, text |-> text, enc |-> enc]

Served(text, enc, rows) ==
    Content(text, enc,
            IF enc = "double" THEN EncodeUtf8(EncodeUtf8(text)) ELSE Encode(text, enc),
            rows)

\* no content at all, and content the CSV tokenizer rejects (a row with more
\* fields than the header)
EmptyContent == Content(<<>>, "utf-8", <<>>, <<>>)
MalformedContent(c) == [c EXCEPT !.malformed = TRUE]

Header(n) == DateHeader \o <<44>> \o n                  \* date header "," n
TwoRows == << <<Num(230102), Num(5)>>, <<Num(230101), Num(7)>> >>
OtherRows == << <<Num(230102), Num(6)>>, <<Num(230103), Num(8)>> >>

\* the headers: each channel name, two Latin headers, two channels
HeaderTexts ==
    {Header(ChannelNames[i]) : i \in 1..Len(ChannelNames)}
        \cup {<<68, 97, 116, 101, 44, 65>>}             \* "Date,A"
        \cup {<<68, 97, 121, 44, 65>>}                  \* "Day,A"
        \cup {Header(ChannelNames[1]) \o <<44>> \o ChannelNames[2]}

SourceEncodings == {"utf-8", "utf-8-sig", "cp949", "euc-kr", "double"}

\* garbled headers as the source spells them, and one it does not know
\* (U+CC44 U+B110 "A", its garbled form i-grave, plus-minus, e-diaeresis, "A")
GarbledContents ==
    { Content(Header(ChannelNames[2]), "as-is",
              EncodeUtf8(GDate \o <<44>> \o JTBC \o GNews \o GRoom), TwoRows),
      Content(Header(ChannelNames[1]), "as-is",
              EncodeUtf8(GDate \o <<44>> \o GNews \o <<65>>), TwoRows),
      Content(<<52292, 45328, 65, 44>> \o ChannelNames[2], "as-is",
              EncodeUtf8(<<236, 177, 235, 65, 44>> \o JTBC \o GNews \o GRoom), TwoRows) }

HeaderContents ==
    {Served(t, e, TwoRows) : t \in HeaderTexts, e \in SourceEncodings} \cup GarbledContents

\* the cells of the date column and of a metric column
DateCells == {Num(230101), Num(230102), Str("x"), Str("2023-01-05"), NaN}
ValueCells == {Num(5), Str("-")}

RowSeqs == UNION {[1..n -> {<<d, v>> : d \in DateCells, v \in ValueCells}] : n \in 0..MaxRows}

RowContents == {Served(Header(ChannelNames[1]), "utf-8", r) : r \in RowSeqs}

\* Latin-1 exports: "Date,No" e-diaeresis "l" and "Date,A" n-tilde "o"
LatinContents ==
    { Served(<<68, 97, 116, 101, 44, 78, 111, 235, 108>>, "iso-8859-1", TwoRows),
      Served(<<68, 97, 116, 101, 44, 65, 241, 111>>, "iso-8859-1", TwoRows) }

IngestContents ==
    HeaderContents \cup RowContents \cup LatinContents
        \cup {EmptyContent, MalformedContent(Served(Header(ChannelNames[1]), "utf-8", TwoRows))}

\* what the export serves while the dashboard runs
ScriptContents ==
    { Served(Header(ChannelNames[1]), "utf-8", TwoRows),
      Served(Header(ChannelNames[1]), "utf-8", OtherRows),
      EmptyContent,
      MalformedContent(Served(Header(ChannelNames[1]), "utf-8", TwoRows)) }

Nets == [1..3 -> BOOLEAN]
AllOK == [k \in 1..3 |-> TRUE]

-----------------------------------------------------------------------------
(* The cache of load_data: @st.cache_data(ttl=300), line 138 *)

TTL == 300

NoEntry == [present |-> FALSE, value |-> Failure("absent"), storedAt |-> 0]
NotCalled == Failure("not called")

\* a buggy variant of CacheFresh: an entry exactly TTL old still counts as fresh
CacheFreshInclusive(c, now) == c.present /\ now - c.storedAt <= TTL

\* whether the entry c may be served at time now
CacheFresh(c, now) == c.present /\ now - c.storedAt < TTL

\* load_data() as the script calls it: the entry if it is fresh, else the body
\* is executed and whatever it returns (a failure too) is stored
get_or_fetch(c, now, rem, n) ==
    IF CacheFresh(c, now)
    THEN [value |-> c.value, gets |-> 0, cache |-> c, lookup |-> "hit", netw |-> AllOK]
    ELSE LET run == RunLoadData(rem, n)
         IN  [value |-> run.value, gets |-> run.gets,
              cache |-> [present |-> TRUE, value |-> run.value, storedAt |-> now],
              lookup |-> IF c.present THEN "expired" ELSE "absent", netw |-> n]

\* a buggy variant of Render: the empty table is not checked
RenderUnchecked(r) == "dashboard"

\* lines 725-727 and what follows: the cannot-load state and st.stop(), or the
\* controls, filters and transforms of the dashboard
Render(r) == IF IsEmptyDF(r.df) THEN "cannot_load" ELSE "dashboard"

-----------------------------------------------------------------------------
(* The dashboard script: one logical flow per user interaction *)

TickSizes == {TTL - 1, TTL, TTL + 1}

Init ==
    /\ clock = 0
    /\ cache = NoEntry
    /\ remote \in ScriptContents
    /\ pc = "idle"
    /\ result = NotCalled
    /\ gets = 0
    /\ ui = "none"
    /\ op = "init"
    /\ lookup = "none"
    /\ netw = AllOK
    /\ name = <<>>
    /\ once = <<>>
    /\ twice = <<>>
    /\ table = NoTable
    /\ view = NoView
    /\ sel = NoSel

\* lines 715-727: a run of the script (page load, a widget interaction, or the
\* rerun a refresh asked for) up to and past the data load
ScriptRun(n) ==
    \E g \in {get_or_fetch(cache, clock, remote, n)} :
        /\ result' = g.value
        /\ gets' = g.gets
        /\ cache' = g.cache
        /\ lookup' = g.lookup
        /\ netw' = g.netw
        /\ ui' = Render(g.value)
        /\ op' = IF pc = "rerun" THEN "rerun" ELSE "run"
        /\ pc' = "idle"
        /\ UNCHANGED <<clock, remote, name, once, twice, table, view, sel>>

\* a buggy variant of RefreshClick: the rerun is asked for, the cache is not cleared
RefreshClickNoClear ==
    /\ pc = "idle"
    /\ ui # "none"
    /\ pc' = "rerun"
    /\ op' = "refresh"
    /\ UNCHANGED <<clock, cache, remote, result, gets, ui, lookup, netw, name, once, twice, table, view, sel>>

\* lines 711-713: the refresh button of a rendered page; st.rerun() ends the run
RefreshClick ==
    /\ pc = "idle"
    /\ ui # "none"
    /\ cache' = NoEntry
    /\ pc' = "rerun"
    /\ op' = "refresh"
    /\ UNCHANGED <<clock, remote, result, gets, ui, lookup, netw, name, once, twice, table, view, sel>>

\* time passes
Tick(d) ==
    /\ clock + d <= MaxClock
    /\ clock' = clock + d
    /\ op' = "tick"
    /\ UNCHANGED <<cache, remote, pc, result, gets, ui, lookup, netw, name, once, twice, table, view, sel>>

\* the spreadsheet is edited
RemoteChange(c) ==
    /\ c # remote
    /\ remote' = c
    /\ op' = "edit"
    /\ UNCHANGED <<clock, cache, pc, result, gets, ui, lookup, netw, name, once, twice, table, view, sel>>

Next ==
    \/ \E n \in Nets : ScriptRun(n)
    \/ RefreshClick
    \/ \E d \in TickSizes : Tick(d)
    \/ \E c \in ScriptContents : RemoteChange(c)

Spec == Init /\ [][Next]_vars

-----------------------------------------------------------------------------
(* load_data alone, on every content considered *)

InitIngest ==
    /\ clock = 0
    /\ cache = NoEntry
    /\ remote \in IngestContents
    /\ pc = "idle"
    /\ result = NotCalled
    /\ gets = 0
    /\ ui = "none"
    /\ op = "init"
    /\ lookup = "none"
    /\ netw = AllOK
    /\ name = <<>>
    /\ once = <<>>
    /\ twice = <<>>
    /\ table = NoTable
    /\ view = NoView
    /\ sel = NoSel

Ingest(n) ==
    /\ op = "init"
    /\ \E run \in {RunLoadData(remote, n)} :
           /\ result' = run.value
           /\ gets' = run.gets
    /\ netw' = n
    /\ op' = "ingest"
    /\ UNCHANGED <<clock, cache, remote, pc, ui, lookup, name, once, twice, table, view, sel>>

NextIngest == \E n \in Nets : Ingest(n)

SpecIngest == InitIngest /\ [][NextIngest]_vars

-----------------------------------------------------------------------------
(* Column-name repair alone *)

RepairAlphabet == {235, 236, 180, 164, 163, 184, 167, 65, 45684}

RepairNames ==
    UNION {[1..n -> RepairAlphabet] : n \in 0..MaxNameLen}
        \cup KnownNames
        \cup {column_mapping[i][1] : i \in 1..Len(column_mapping)}
        \cup {<<236>> \o column_mapping[i][1] \o <<235>> : i \in 1..Len(column_mapping)}
        \cup {replacements[i][1] \o replacements[j][1] :
                i \in 1..Len(replacements), j \in 1..Len(replacements)}

InitRepair ==
    /\ clock = 0
    /\ cache = NoEntry
    /\ remote = EmptyContent
    /\ pc = "idle"
    /\ result = NotCalled
    /\ gets = 0
    /\ ui = "none"
    /\ op = "init"
    /\ lookup = "none"
    /\ netw = AllOK
    /\ name \in RepairNames
    /\ once = <<>>
    /\ twice = <<>>
    /\ table = NoTable
    /\ view = NoView
    /\ sel = NoSel

Repair ==
    /\ op = "init"
    /\ once' = FixName(name)
    /\ op' = "once"
    /\ UNCHANGED <<clock, cache, remote, pc, result, gets, ui, lookup, netw, name, twice, table, view, sel>>

RepairAgain ==
    /\ op = "once"
    /\ twice' = FixName(once)
    /\ op' = "twice"
    /\ UNCHANGED <<clock, cache, remote, pc, result, gets, ui, lookup, netw, name, once, table, view, sel>>

NextRepair == Repair \/ RepairAgain

SpecRepair == InitRepair /\ [][NextRepair]_vars

-----------------------------------------------------------------------------
(* The main chart of a run, on every table and selection considered *)

\* date header and two channels; date header and three channels; date header,
\* a channel and its 2049 column
TwoChannels == DateHeader \o <<44>> \o ChannelNames[1] \o <<44>> \o ChannelNames[2]
ThreeChannels ==
    DateHeader \o <<44>> \o ChannelNames[1] \o <<44>> \o ChannelNames[2]
        \o <<44>> \o ChannelNames[3]
With2049 == DateHeader \o <<44>> \o ChannelNames[1] \o <<44>> \o ChannelNames[5]

\* n days from 2023-01-01 on; the second channel misses a value
DailyRows(n) ==
    [i \in 1..n |->
        <<Num(230100 + i), Num((i % 3) + 1), IF i = 2 THEN Str("-") ELSE Num((i * i) % 5)>>]

\* the ends of February and March of 2023 and of the leap year 2024
YearRows ==
    << <<Num(230228), Num(1), Num(7), Num(2)>>, <<Num(230301), Num(2), Num(1), Num(2)>>,
       <<Num(230331), Num(3), Num(4), Num(9)>>, <<Num(240229), Num(4), Num(2), Num(2)>>,
       <<Num(240301), Num(6), Num(2), Num(5)>>, <<Num(240330), Num(5), Num(6), Num(1)>>,
       <<Num(240331), Num(7), Num(3), Num(1)>> >>

\* two Mondays at 10 and two Tuesdays at 20
MondayTuesdayRows ==
    << <<Num(230102), Num(10), Num(10), Num(10)>>, <<Num(230103), Num(20), Num(20), Num(20)>>,
       <<Num(230109), Num(10), Num(10), Num(10)>>, <<Num(230110), Num(20), Num(20), Num(20)>> >>

\* a row without a date among dated rows, and values of zero
MixedRows ==
    << <<Num(230102), Num(5), Num(0), Num(1)>>, <<Str("x"), Num(7), Num(0), Num(2)>>,
       <<Num(230107), Num(1), Num(0), Num(3)>>, <<Num(230109), Num(0), Str("-"), Num(4)>> >>

ViewLengths == {1, 10, 30, 31}

ViewContents ==
    {Served(TwoChannels, "utf-8", DailyRows(n)) : n \in ViewLengths}
        \cup {Served(ThreeChannels, "utf-8", rows) :
                rows \in {YearRows, MondayTuesdayRows, MixedRows}}
        \cup {Served(With2049, "utf-8",
                     << <<Num(230102), Num(5), Num(1)>>, <<Num(230103), Num(6), Num(2)>>,
                        <<Num(230107), Num(9), Num(2)>> >>)}

\* the days picked in the date inputs, between the first and the last date of
\* the table: the two ends and the dates of the two middle rows
DateChoices(r) ==
    LET n == Len(r.df.rows)
        mid == {r.df.rows[i].date.day :
                   i \in {k \in {(n + 1) \div 2, ((n + 1) \div 2) + 1} :
                             k <= n /\ ~r.df.rows[k].date.nat}}
    IN  {r.info.date_range[1].day, r.info.date_range[2].day} \cup mid

InitView ==
    /\ clock = 0
    /\ remote \in ViewContents
    /\ result = load_data(remote, AllOK)
    /\ cache = [present |-> TRUE, value |-> result, storedAt |-> 0]
    /\ pc = "idle"
    /\ gets = 2
    /\ ui = Render(result)
    /\ op = "loaded"
    /\ lookup = "absent"
    /\ netw = AllOK
    /\ name = <<>>
    /\ once = <<>>
    /\ twice = <<>>
    /\ table = Frame(result.df)
    /\ view = NoView
    /\ sel = NoSel

\* a selection of the sidebar, the widgets of the other chart types left alone
Selection(day_type, show_2049, chart_type, channels) ==
    [day_type |-> day_type, show_2049 |-> show_2049, chart_type |-> chart_type,
     channels |-> channels, periods |-> <<>>, use_custom_dates |-> FALSE,
     custom_dates |-> NoDates, comparison_type |-> <<>>, period_type |-> Whole,
     analysis_period |-> NoPeriod]

\* the selections common to every chart type, lines 735-757 and 921-926: the
\* day type, the rating type and the channels picked among those of the
\* rating type
Common(chart_type) ==
    UNION {{Selection(d, b, chart_type, c) :
                d \in DayTypes,
                c \in Arrangements(Range(create_channels_dict(result.numeric_columns, b)))}
              : b \in BOOLEAN}

\* lines 772-790: the periods of the moving averages
MovingAverageSelections ==
    {[s EXCEPT !.periods = p] : s \in Common("moving average"), p \in PeriodChoices}

\* lines 792-841: a named period, or dates picked
PeriodComparisonSelections ==
    {[s EXCEPT !.comparison_type = c] :
        s \in Common("period comparison"), c \in ComparisonTypes}
    \cup {[s EXCEPT !.use_custom_dates = TRUE,
                    !.custom_dates = custom_range(result.info, a, b)] :
             s \in Common("period comparison"),
             a \in DateChoices(result), b \in DateChoices(result)}

\* lines 843-845
ScatterSelections == Common("scatter")

\* lines 847-854: the period of the weekday chart
WeekdaySelections ==
    {[s EXCEPT !.period_type = p] : s \in Common("weekday"), p \in PeriodTypes}

\* lines 856-906: a number of latest rows or every row, or dates picked
CorrelationSelections ==
    {[s EXCEPT !.analysis_period = p] : s \in Common("correlation"), p \in AnalysisPeriods}
    \cup {[s EXCEPT !.use_custom_dates = TRUE,
                    !.custom_dates = custom_range(result.info, a, b)] :
             s \in Common("correlation"),
             a \in DateChoices(result), b \in DateChoices(result)}

\* lines 729-936: what the sidebar of a run can hold
Selections ==
    MovingAverageSelections \cup PeriodComparisonSelections \cup ScatterSelections
        \cup WeekdaySelections \cup CorrelationSelections

\* lines 723-1177: the rest of a run whose load succeeded, with the selections
\* of the sidebar; one chart is drawn per run
Show ==
    /\ op = "loaded"
    /\ ui = "dashboard"
    /\ \E s \in Selections :
           /\ \E m \in {MainChart(result, s)} :
                  /\ table' = m.table
                  /\ view' = m.view
           /\ sel' = s
    /\ op' = "chart"
    /\ UNCHANGED <<clock, cache, remote, pc, result, gets, ui, lookup, netw, name, once, twice>>

NextView == Show

SpecView == InitView /\ [][NextView]_vars

-----------------------------------------------------------------------------
(* Properties *)

Called == op \in {"run", "rerun"}
Fetched == Called /\ lookup # "hit"
HeaderOf(r) == SubSeq(r.df.columns, 1, Len(r.df.columns) - 3)

\* C1: a load_data() call that finds an entry younger than TTL returns that entry
\* and makes no request; one that finds an entry TTL old or older executes the
\* body on the current content and stores what it returned at the current time.
C1_TtlWindow ==
    [][ (op' \in {"run", "rerun"} /\ cache.present) =>
            IF clock - cache.storedAt < TTL
            THEN result' = cache.value /\ gets' = 0 /\ cache' = cache
            ELSE /\ gets' >= 1
                 /\ result' = load_data(remote, netw')
                 /\ cache' = [present |-> TRUE, value |-> result', storedAt |-> clock] ]_vars

C1_Witness == op = "run" /\ lookup = "expired" /\ gets >= 1 /\ cache.storedAt = clock

\* C2: the refresh leaves the cache without an entry, and the call of the rerun
\* that follows executes the body, however young the cleared entry was.
C2_RefreshForcesFetch ==
    [][ /\ op' = "refresh" => ~cache'.present
        /\ op' = "rerun" =>
              /\ ~cache.present
              /\ lookup' = "absent"
              /\ gets' >= 1
              /\ result' = load_data(remote, netw')
              /\ cache' = [present |-> TRUE, value |-> result', storedAt |-> clock] ]_vars

C2_Witness == op = "rerun" /\ gets >= 1 /\ clock < TTL

\* C3: the remote source is requested at most once per TTL window: no call of
\* load_data() performs more than one HTTP GET.
C3_OneFetchPerWindow == Called => gets <= 1

\* a failure was raised while the body ran: a request that was made failed, the
\* CSV parse failed, or no candidate yielded a table
FailureRaised ==
    \/ \E k \in 1..gets : ~netw[k]
    \/ remote.malformed
    \/ remote.bytes = <<>>

\* a failure the body does not recover from
Unrecovered ==
    \/ ~netw[1]
    \/ (~netw[2] \/ remote.malformed) /\ ~netw[3]
    \/ remote.malformed
    \/ remote.bytes = <<>>

FailureShape(r) ==
    /\ r.df = EmptyDF
    /\ r.numeric_columns = <<>>
    /\ r.info.error_type = "processing"
    /\ r.info.message \notin {"", "absent"}

C5_ReportsSourceEncoding ==
    ( /\ op = "ingest"
      /\ netw = AllOK
      /\ remote.enc \in Range(encodings)
      /\ ~remote.malformed
      /\ \E c \in Range(ParseHeader(remote.text)) : c \in Range(ChannelNames) )
    => ( /\ ~IsFailure(result)
         /\ HeaderOf(result) = ParseHeader(remote.text)
         /\ result.info.encoding = remote.enc )

\* C6: repairing a repaired column name changes nothing, and repairing a known
\* name changes nothing.
C6_RepairIdempotent ==
    /\ op = "twice" => twice = once
    /\ (op \in {"once", "twice"} /\ name \in KnownNames) => once = name

C6_Witness ==
    op = "twice" /\ name = <<236>> \o column_mapping[4][1] \o <<235>> /\ once # name

\* C7: every column name a successful ingestion surfaces (table, numeric list,
\* diagnostics) is a name of the header that was meant, or a derived column.
C7_NoCorruptedNames ==
    (op = "ingest" /\ ~IsFailure(result)) =>
        LET good == Range(ParseHeader(remote.text)) \cup {original_date, date, weekday}
        IN  /\ Range(result.df.columns) \subseteq good
            /\ Range(result.numeric_columns) \subseteq good
            /\ Range(result.info.column_names) \subseteq good

\* C8: no row of a successfully ingested table has a missing date or weekday.
C8_NoMissingDate ==
    (op = "ingest" /\ ~IsFailure(result)) =>
        \A i \in 1..Len(result.df.rows) :
            ~result.df.rows[i].date.nat /\ result.df.rows[i].weekday.k = "num"

\* no parse reads the date cell of any row
AllUnparseable(rem) == \A i \in 1..Len(rem.rows) : rem.rows[i][1] \in {Str("x"), NaN}

\* C9: when no date cell is parseable, ingestion succeeds (the requests
\* permitting) and the dates are consecutive days in row order, one per row.
C9_SyntheticDates ==
    (op = "ingest" /\ AllUnparseable(remote) /\ remote.bytes # <<>> /\ ~remote.malformed) =>
        /\ (netw[1] /\ (netw[2] \/ netw[3])) => ~IsFailure(result)
        /\ ~IsFailure(result) =>
              /\ Len(result.df.rows) = Len(remote.rows)
              /\ \A i \in 1..Len(result.df.rows) :
                    /\ ~result.df.rows[i].date.nat
                    /\ result.df.rows[i].original_date = remote.rows[i][1]
                    /\ i > 1 => result.df.rows[i].date.day = result.df.rows[i - 1].date.day + 1

C9_Witness ==
    /\ op = "ingest" /\ ~IsFailure(result)
    /\ AllUnparseable(remote) /\ Len(remote.rows) >= 2
    /\ result.df.rows[2].date.day = result.df.rows[1].date.day + 1

\* the content with the same cells whose dates are really 2023-01-01, -02, ...
Twin(rem) ==
    [rem EXCEPT !.rows = [i \in 1..Len(rem.rows) |-> [rem.rows[i] EXCEPT ![1] = Num(230100 + i)]]]

\* C10: the diagnostics of an ingestion that used the synthetic dates differ
\* from those of an ingestion whose dates were all parsed.
C10_SyntheticRecorded ==
    (op = "ingest" /\ ~IsFailure(result) /\ AllUnparseable(remote) /\ Len(remote.rows) >= 1) =>
        result.info # load_data(Twin(remote), netw).info

\* the bijections of 1..n
Perms(n) == {p \in [1..n -> 1..n] : \A i, j \in 1..n : p[i] = p[j] => i = j}

\* the i-th source row as read under a header of w columns
SourceRow(rem, w, i) ==
    [j \in 1..w |-> IF j <= Len(rem.rows[i]) THEN rem.rows[i][j] ELSE NaN]

\* C11: the rows of a successfully ingested table are in ascending date order
\* (date[i] <= date[i+1], which no missing date satisfies), the index is 0..n-1,
\* and every row carries the original date, the weekday and the metric values of
\* one source row, each source row appearing once.
C11_SortedAligned ==
    (op = "ingest" /\ ~IsFailure(result)) =>
        LET rows == result.df.rows
            n == Len(rows)
            cols == HeaderOf(result)
            w == Len(cols)
            dates == DeriveDates([i \in 1..Len(remote.rows) |-> SourceRow(remote, w, i)[1]])
        IN  /\ \A i \in 1..(n - 1) :
                  /\ ~rows[i].date.nat /\ ~rows[i + 1].date.nat
                  /\ rows[i].date.day <= rows[i + 1].date.day
            /\ \A i \in 1..n : rows[i].index = i - 1
            /\ n = Len(remote.rows)
            /\ \E p \in Perms(n) :
                  \A i \in 1..n :
                      /\ rows[i].original_date = SourceRow(remote, w, p[i])[1]
                      /\ rows[i].date = dates[p[i]]
                      /\ rows[i].weekday = dayofweek(rows[i].date)
                      /\ \A j \in 1..w :
                            rows[i].cells[j] =
                                IF cols[j] \in exclude_columns
                                THEN SourceRow(remote, w, p[i])[j]
                                ELSE to_numeric(SourceRow(remote, w, p[i])[j])

\* C12: the numeric-column list of a successful ingestion is, in column order,
\* the columns other than the date source, date, original_date and weekday that
\* hold a number in at least one row; the date source is not in the list.
C12_NumericColumnsExact ==
    (op = "ingest" /\ ~IsFailure(result)) =>
        LET cols == result.df.columns
            w == Len(HeaderOf(result))
            structural(j) == j = 1 \/ cols[j] \in {date, original_date, weekday}
            numeric(j) ==
                /\ j <= w
                /\ \E i \in 1..Len(remote.rows) : SourceRow(remote, w, i)[j].k = "num"
            idx == SelectSeq([j \in 1..Len(cols) |-> j],
                             LAMBDA j : ~structural(j) /\ numeric(j))
        IN  /\ result.numeric_columns = [k \in 1..Len(idx) |-> cols[idx[k]]]
            /\ result.info.date_column \notin Range(result.numeric_columns)

\* the k-th candidate decodes the content, the text parses as CSV, and the
\* header holds a known channel-name fragment or no garbled marker
Accepts(rem, k) ==
    LET dec == Decode(rem.bytes, encodings[k])
    IN  /\ dec.ok
        /\ dec.text # <<>>
        /\ ~rem.malformed
        /\ has_korean(ParseHeader(dec.text)) \/ ~has_garbled(ParseHeader(dec.text))

\* C19: when the requests succeed, the first candidate, in the order utf-8,
\* utf-8-sig, cp949, euc-kr, iso-8859-1, that decodes, parses and passes the
\* header test gives the table (its header, repaired, and all rows) and the
\* reported encoding, whatever the later candidates would give.
C19_FirstAccepted ==
    (op = "ingest" /\ netw[1] /\ netw[2]) =>
        \A k \in 1..Len(encodings) :
            (Accepts(remote, k) /\ \A m \in 1..(k - 1) : ~Accepts(remote, m)) =>
                /\ ~IsFailure(result)
                /\ result.info.encoding = encodings[k]
                /\ HeaderOf(result) =
                       fix_korean_columns(ParseHeader(Decode(remote.bytes, encodings[k]).text))
                /\ Len(result.df.rows) = Len(remote.rows)
                /\ gets = 2

\* two candidates decoded and were passed over before the third was accepted
C19_Witness ==
    /\ op = "ingest" /\ netw[1] /\ netw[2] /\ ~IsFailure(result)
    /\ Decode(remote.bytes, encodings[1]).ok
    /\ ~Accepts(remote, 1) /\ ~Accepts(remote, 2) /\ Accepts(remote, 3)
    /\ Accepts(remote, 5)
    /\ result.info.encoding = encodings[3]

\* the last candidate that decodes the content
LastDecoded(rem) ==
    CHOOSE k \in 1..Len(encodings) :
        /\ Decode(rem.bytes, encodings[k]).ok
        /\ \A m \in (k + 1)..Len(encodings) : ~Decode(rem.bytes, encodings[m]).ok

\* C20: when the requests succeed, the content parses and no candidate passes
\* the header test, ingestion succeeds on the text of the last candidate that
\* decoded, and the diagnostics give the encoding as "fallback".
C20_FallbackReported ==
    ( /\ op = "ingest" /\ netw[1] /\ netw[2]
      /\ ~remote.malformed /\ remote.bytes # <<>>
      /\ \A k \in 1..Len(encodings) : ~Accepts(remote, k) )
    => ( /\ ~IsFailure(result)
         /\ HeaderOf(result) =
                fix_korean_columns(
                    ParseHeader(Decode(remote.bytes, encodings[LastDecoded(remote)]).text))
         /\ Len(result.df.rows) = Len(remote.rows)
         /\ result.info.encoding = "fallback" )


\* the values of xs that are numbers, among those at positions lo..hi
Observed(xs, lo, hi) == SelectSeq(SubSeq(xs, IF lo < 1 THEN 1 ELSE lo, hi), IsNum)

\* C13: a run that draws moving averages leaves, for every selected channel
\* and every selected window W, an average column of one number per row of the
\* table drawn, also when the table has fewer than W rows; the number at row i
\* is the mean of the observations of the at most W rows ending at i.
C13_RollingAverages ==
    view.chart = "moving average"
    => \A c \in Range(sel.channels), w \in Range(sel.periods) :
           /\ MAName(c, w) \in Range(FrameColumns(view.left))
           /\ LET ys == ColumnValues(view.left, MAName(c, w))
                  xs == ColumnValues(view.given, c)
              IN  /\ Len(ys) = Len(view.given.rows)
                  /\ \A i \in 1..Len(ys) :
                         /\ IsNum(ys[i])
                         /\ ys[i] = Mean(Observed(xs, i - w + 1, i))


\* C14: no transform changes the table it is given: after a run, the table
\* returned by ingestion and the table passed to the transform have the
\* columns and values they had before.
C14_TablesUnchanged ==
    op = "chart" => (table = Frame(result.df) /\ view.left = view.given)


\* day d is the day m calendar months before day e: the same day of the
\* month m months earlier, or the last day of that month if it is shorter
MonthsBack(d, e, m) ==
    /\ 12 * YearOf(d) + MonthOf(d) = 12 * YearOf(e) + MonthOf(e) - m
    /\ \/ DayOf(d) = DayOf(e)
       \/ DayOf(d) < DayOf(e) /\ MonthOf(d + 1) # MonthOf(d)

\* the mean of a channel over the rows of f dated from lo to hi
WindowMean(f, channel, lo, hi) ==
    LET j == CHOOSE k \in 1..Len(f.columns) : f.columns[k] = channel
        inside == SelectSeq([i \in 1..Len(f.rows) |-> i],
                            LAMBDA i : /\ ~f.rows[i].date.nat
                                       /\ lo <= f.rows[i].date.day
                                       /\ f.rows[i].date.day <= hi)
    IN  Mean([k \in 1..Len(inside) |-> CellValue(f.rows[inside[k]].cells[j])])

\* the latest date of the rows of f
LastDay(f) ==
    CHOOSE d \in {f.rows[i].date.day : i \in {k \in 1..Len(f.rows) : ~f.rows[k].date.nat}} :
        \A i \in 1..Len(f.rows) : f.rows[i].date.nat \/ f.rows[i].date.day <= d

\* C15: a period comparison takes the current window from the dates picked, or
\* as the M months ending at the latest date; the prior window has both bounds
\* one calendar year earlier; each selected channel gets its mean over the
\* rows dated within the current window and its mean over the rows dated
\* within the prior window, and when both are there the difference reported is
\* the current mean minus the prior mean.
C15_PeriodComparison ==
    view.chart = "period comparison"
    => LET fig == view.fig
           lo == fig.current[1]
           hi == fig.current[2]
       IN  /\ IF sel.use_custom_dates
              THEN lo = sel.custom_dates[1].day /\ hi = sel.custom_dates[2].day
              ELSE /\ hi = LastDay(view.given)
                   /\ \E m \in {1, 3, 6, 9, 12} :
                          /\ sel.comparison_type = Recent(Digits(m))
                          /\ MonthsBack(lo, hi, m)
           /\ MonthsBack(fig.previous[1], lo, 12)
           /\ MonthsBack(fig.previous[2], hi, 12)
           /\ Len(fig.bars) = Len(sel.channels)
           /\ \A k \in 1..Len(fig.bars) :
                  LET bar == fig.bars[k]
                  IN  /\ bar.channel = sel.channels[k]
                      /\ bar.curr_val = WindowMean(view.given, bar.channel, lo, hi)
                      /\ bar.prev_val = WindowMean(view.given, bar.channel,
                                                   fig.previous[1], fig.previous[2])
                      /\ (IsNum(bar.curr_val) /\ IsNum(bar.prev_val))
                         => /\ IsNum(bar.diff)
                            /\ bar.diff.p * bar.curr_val.q * bar.prev_val.q
                                   = (bar.curr_val.p * bar.prev_val.q
                                          - bar.prev_val.p * bar.curr_val.q) * bar.diff.q

\* a window that starts on 29 February 2024, its prior window starting on
\* 28 February 2023, both with rows, and a difference that is not zero
C15_Witness ==
    /\ view.chart = "period comparison"
    /\ view.fig.current[1] = 45349
    /\ view.fig.previous[1] = 44983
    /\ \E k \in 1..Len(view.fig.bars) :
           /\ IsNum(view.fig.bars[k].curr_val)
           /\ IsNum(view.fig.bars[k].prev_val)
           /\ view.fig.bars[k].diff.p # 0
    /\ \E i \in 1..Len(view.given.rows) : view.given.rows[i].date.day = 44983


\* no row of f is dated from lo to hi
EmptyWindow(f, lo, hi) ==
    \A i \in 1..Len(f.rows) :
        f.rows[i].date.nat \/ f.rows[i].date.day < lo \/ f.rows[i].date.day > hi

DayRows(d) ==
    SelectSeq(PeriodRows(result.df, sel.period_type),
              LAMBDA r : r.weekday.k = "num" /\ r.weekday.n = d)

\* the mean over the selected channels of the channel's mean on weekday d
GrandMean(d) ==
    Mean([c \in 1..Len(sel.channels) |->
             Mean([i \in 1..Len(DayRows(d)) |->
                      CellValue(DayRows(d)[i].cells[
                          CHOOSE j \in 1..Len(result.df.columns) :
                              result.df.columns[j] = sel.channels[c]])])])

\* the product of two numbers
RatMul(a, b) == Rat(a.p * b.p, a.q * b.q)

\* C17: the weekday analysis holds the grand mean of exactly the weekdays of
\* the active ordering that have a row in the window; with two or more of
\* them, the spread times the mean of the grand means is 100 times the
\* largest grand mean minus the smallest; with fewer, no spread is computed.
C17_WeekdaySpread ==
    view.chart = "weekday"
    => LET avgs == view.pattern.all_channels_avg
           n == Len(avgs)
           days == {d \in Range(weekday_order(sel.day_type)) : DayRows(d) # <<>>}
       IN  /\ {avgs[k].day : k \in 1..n} = days
           /\ n = Cardinality(days)
           /\ \A k \in 1..n : avgs[k].avg = GrandMean(avgs[k].day)
           /\ n < 2 => (view.pattern.variation = NoValue /\ view.pattern.note # "spread")
           /\ (n >= 2 /\ \A k \in 1..n : IsNum(avgs[k].avg))
              => LET hi == CHOOSE k \in 1..n : \A m \in 1..n : ~RatLT(avgs[k].avg, avgs[m].avg)
                     lo == CHOOSE k \in 1..n : \A m \in 1..n : ~RatLT(avgs[m].avg, avgs[k].avg)
                     mid == Mean([k \in 1..n |-> avgs[k].avg])
                 IN  /\ view.pattern.note = "spread"
                     /\ mid.p # 0
                        => /\ IsNum(view.pattern.variation)
                           /\ RatMul(view.pattern.variation, mid)
                                  = RatMul(Rat(100, 1), RatSub(avgs[hi].avg, avgs[lo].avg))

\* Mondays at 10 and Tuesdays at 20, no other weekday with rows: a spread of
\* 200/3, which is 66.7 to one decimal
C17_Witness ==
    /\ view.chart = "weekday"
    /\ Len(view.pattern.all_channels_avg) = 2
    /\ view.pattern.all_channels_avg[1] = [day |-> 0, avg |-> Rat(10, 1)]
    /\ view.pattern.all_channels_avg[2] = [day |-> 1, avg |-> Rat(20, 1)]
    /\ view.pattern.variation = Rat(200, 3)
    /\ Len(weekday_order(sel.day_type)) = 7


\* |a| > |b|, for two numbers
AbsGT(a, b) == IsNum(a) /\ IsNum(b) /\ Abs(a.p) * b.q > Abs(b.p) * a.q

\* C18: the correlation analysis runs only with two or more selected
\* channels; its table has exactly one pair for each i < j of the n selected
\* channels, n(n-1)/2 pairs, and no pair comes after a pair whose coefficient
\* is smaller in absolute value.
C18_CorrelationPairs ==
    view.chart = "correlation"
    => LET n == Len(sel.channels)
           pairs == view.corr_df
       IN  /\ n >= 2
           /\ 2 * Len(pairs) = n * (n - 1)
           /\ {<<pairs[k].first, pairs[k].second>> : k \in 1..Len(pairs)}
                  = {<<sel.channels[p[1]], sel.channels[p[2]]>> :
                        p \in {q \in (1..n) \X (1..n) : q[1] < q[2]}}
           /\ \A k \in 1..Len(pairs), m \in 1..Len(pairs) :
                  k < m => ~AbsGT(pairs[m].coef, pairs[k].coef)


\* three channels, three coefficients that differ in absolute value, the pair
\* of the second and third channel before the pairs of the first
C18_Witness ==
    /\ view.chart = "correlation"
    /\ Len(sel.channels) = 3
    /\ Len(view.corr_df) = 3
    /\ AbsGT(view.corr_df[1].coef, view.corr_df[2].coef)
    /\ AbsGT(view.corr_df[2].coef, view.corr_df[3].coef)
    /\ view.corr_df[1].first = sel.channels[2]
    /\ view.corr_df[1].second = sel.channels[3]


\* C21: in a successful ingestion, a column other than the date source, date,
\* original_date and weekday whose cells all fail the numeric coercion is not
\* in the numeric-column list, and every row of the table holds in it the
\* cell its source row holds.
C21_FailedColumnKept ==
    (op = "ingest" /\ ~IsFailure(result)) =>
        LET cols == HeaderOf(result)
            w == Len(cols)
            n == Len(remote.rows)
            failed(j) ==
                /\ n >= 1
                /\ \A i \in 1..n : to_numeric(SourceRow(remote, w, i)[j]).k # "num"
        IN  \A j \in 2..w :
                (cols[j] \notin {date, original_date, weekday} /\ failed(j))
                => /\ cols[j] \notin Range(result.numeric_columns)
                   /\ \A i \in 1..Len(result.df.rows) :
                          \E k \in 1..n :
                              /\ result.df.rows[i].original_date = SourceRow(remote, w, k)[1]
                              /\ result.df.rows[i].cells[j] = SourceRow(remote, w, k)[j]


\* C22: a failure is not kept for later calls: a load_data() call made while
\* the cache holds the failure an earlier call returned (no refresh since)
\* executes the body again, however young that entry is.
C22_FailureNotMemoized ==
    [][ (op' \in {"run", "rerun"} /\ cache.present /\ IsFailure(cache.value)) =>
            /\ lookup' # "hit"
            /\ gets' >= 1
            /\ result' = load_data(remote, netw') ]_vars

====
